---- MODULE Spec2Model ----
(***************************************************************************)
(* State-machine model of src/hstream/hstream.py (class Hyperstream and    *)
(* the FastAPI handlers it builds).                                        *)
(*                                                                         *)
(* Process-wide state of the single Hyperstream instance `hs`:             *)
(*   - the shelve files under hs_data/<visitor id>, each holding the keys  *)
(*     "components" and "update_required";                                 *)
(*   - hs._queue_user_script_rerun, one flag for the whole process;        *)
(*   - builtins.hs_user_app_db_path, set by the first line that            *)
(*     compile_user_code prepends to the user script and never unset.      *)
(* All handlers are `async def` on one event loop, so code between two     *)
(* awaits runs without interleaving.  The awaits are `await                *)
(* call_next(request)` in the middleware and `await request.form()` in     *)
(* the value-change handler; requests of different visitors interleave     *)
(* there.  One request per visitor is in flight at a time.                 *)
(*                                                                         *)
(* context.hs_user_app_db_path is assigned at the top of the middleware    *)
(* and is read (outside asserts) only by get_app_db_path while builtins    *)
(* has no path yet and by compile_user_code, both inside the same          *)
(* uninterrupted middleware step, so it is carried as the parameter ctx.   *)
(***************************************************************************)
EXTENDS Integers, Sequences, FiniteSets, TLC

VARIABLES components, update_required, queue_user_script_rerun,
          hs_user_app_db_path, req, last, received, owed, failed

vars == <<components, update_required, queue_user_script_rerun,
          hs_user_app_db_path, req, last, received, owed, failed>>

(* The number of requests the server receives in a run of the model. *)
MaxRequests == 3

MaxDeepRequests == 4

MaxEdgeRequests == 3

----------------------------------------------------------------------------
(* Values *)

Visitors == {"v1", "v2"}

(* The two visitors are interchangeable: the first request is v1's. *)
FirstVisitor == "v1"

NoPath == "unset"

HS_HTML_KEY == "hs_html_1"

Keys == {"a", "b", HS_HTML_KEY}

UnknownKey == "z"

RequestKeys == {"a", "b", UnknownKey}

FULL_PAGE == "_full_page"

FormValue == "2"

IsHtmlKey(k) == k = HS_HTML_KEY

EmptyComponents == [k \in {} |-> [label |-> ""]]

Rec(k, l) == [component_key |-> k, component_type |-> "Text", label |-> l]

RecExtra(k, l) ==
    [component_key |-> k, component_type |-> "Text", label |-> l, extra |-> "m"]

RecInput(k, l, cv) ==
    [component_key |-> k, component_type |-> "Input", label |-> l,
     current_value |-> cv]

One(k, r) == [x \in {k} |-> r]

Both(ra, rb) == [x \in {"a", "b"} |-> IF x = "a" THEN ra ELSE rb]

(* What one execution of the user script declares, and whether it raises    *)
(* after declaring it.                                                      *)
ScriptRuns ==
    { [decl |-> One("a", Rec("a", "x")), raises |-> FALSE],
      [decl |-> One("a", Rec("a", "y")), raises |-> FALSE],
      [decl |-> One("b", Rec("b", "x")), raises |-> FALSE],
      [decl |-> One("a", RecExtra("a", "x")), raises |-> FALSE],
      [decl |-> One("a", RecInput("a", "x", "1")), raises |-> FALSE],
      [decl |-> One(HS_HTML_KEY, Rec(HS_HTML_KEY, "x")), raises |-> FALSE],
      [decl |-> One("a", Rec("a", "y")), raises |-> TRUE] }

Idle == [phase |-> "idle"]

----------------------------------------------------------------------------
(* The process state as one record, so that the methods compose. *)

State ==
    [c |-> components, u |-> update_required, f |-> queue_user_script_rerun,
     b |-> hs_user_app_db_path]

get_app_db_path(s, ctx) == IF s.b # NoPath THEN s.b ELSE ctx

get_components(s, ctx) == s.c[get_app_db_path(s, ctx)]

write_components(s, ctx, comps) ==
    [s EXCEPT !.c[get_app_db_path(s, ctx)] = comps]

clear_components(s, ctx) == write_components(s, ctx, EmptyComponents)

(* schedule_component_refresh that stores the one name alone *)
schedule_component_refresh_alone(s, ctx, component_name) ==
    [s EXCEPT !.u[get_app_db_path(s, ctx)] = {component_name}]

(* schedule_component_refresh without the write back to the shelf *)
schedule_component_refresh_lost(s, ctx, component_name) == s

schedule_component_refresh(s, ctx, component_name) ==
    [s EXCEPT !.u[get_app_db_path(s, ctx)] = @ \cup {component_name}]

(* clear_component_refresh_queue without the discard of one component *)
clear_component_refresh_queue_keep(s, ctx, component, all_component) ==
    IF all_component
    THEN [s EXCEPT !.u[get_app_db_path(s, ctx)] = {}]
    ELSE s

clear_component_refresh_queue(s, ctx, component, all_component) ==
    IF all_component
    THEN [s EXCEPT !.u[get_app_db_path(s, ctx)] = {}]
    ELSE [s EXCEPT !.u[get_app_db_path(s, ctx)] = @ \ {component}]

get_component_refresh_queue(s, ctx) == s.u[get_app_db_path(s, ctx)]

----------------------------------------------------------------------------
(* The component API the user script calls (hstream/components.py):        *)
(* a declaration stores the record under its key in the visitor's          *)
(* components, replacing a record already there and leaving other keys     *)
(* alone; an input keeps the current_value already stored for its key.     *)

DeclareRecord(old, k, r) ==
    IF /\ "current_value" \in DOMAIN r
       /\ k \in DOMAIN old
       /\ "current_value" \in DOMAIN old[k]
    THEN [r EXCEPT !.current_value = old[k].current_value]
    ELSE r

Declare(old, decl) ==
    [k \in DOMAIN old \cup DOMAIN decl |->
        IF k \in DOMAIN decl THEN DeclareRecord(old, k, decl[k]) ELSE old[k]]

(* compile_user_code that leaves the flag as it is *)
compile_user_code_flagged(s, ctx, run) ==
    LET s2 == [s EXCEPT !.b = ctx]
        s3 == write_components(s2, ctx, Declare(get_components(s2, ctx), run.decl))
    IN  [st |-> s3, raised |-> run.raises]

(* compile_user_code: clears the flag, then executes the script, whose     *)
(* first statement is builtins.hs_user_app_db_path = <context path>.       *)
compile_user_code(s, ctx, run) ==
    LET s1 == [s EXCEPT !.f = FALSE]
        s2 == [s1 EXCEPT !.b = ctx]
        s3 == write_components(s2, ctx, Declare(get_components(s2, ctx), run.decl))
    IN  [st |-> s3, raised |-> run.raises]

----------------------------------------------------------------------------
(* run_user_script: the diff of the components before and after the run.   *)

(* the filter that keeps every record *)
FilterHtml_all(comps) == comps

FilterHtml(comps) ==
    [k \in {x \in DOMAIN comps : ~IsHtmlKey(x)} |-> comps[k]]

(* Attribute and key order of iteration.  Records are built by the         *)
(* component API in this attribute order.  Among the records the script     *)
(* runs above produce, only those of key "a" can differ in a tracked        *)
(* attribute or lack one, so the position of "b" in the OrderedDict is not  *)
(* observable and the keys are iterated in this order.  The runs of         *)
(* EdgeScriptRuns below all declare "a" first, so "a" is inserted first.    *)
AttrOrder == <<"component_key", "component_type", "label", "extra", "current_value">>

KeyOrder == <<"a", "b">>

(* the filter without the exclusion of current_value *)
component_attr_to_trackchanges_all(attr_before) ==
    SelectSeq(AttrOrder, LAMBDA attr : attr \in DOMAIN attr_before)

component_attr_to_trackchanges(attr_before) ==
    SelectSeq(AttrOrder,
              LAMBDA attr : attr \in DOMAIN attr_before /\ attr # "current_value")

(* The inner for loop: schedules the key on each differing attribute and   *)
(* raises KeyError on an attribute attr_next lacks.                         *)
RECURSIVE CompareAttrs(_, _, _)
CompareAttrs(attrs, attr_before, attr_next) ==
    IF attrs = <<>>
    THEN [enq |-> FALSE, raised |-> FALSE]
    ELSE LET attr == Head(attrs)
         IN  IF attr \notin DOMAIN attr_next
             THEN [enq |-> FALSE, raised |-> TRUE]
             ELSE LET r == CompareAttrs(Tail(attrs), attr_before, attr_next)
                  IN  [enq |-> (attr_before[attr] # attr_next[attr]) \/ r.enq,
                       raised |-> r.raised]

(* The outer for loop over compoennts_before_user_run.items(). *)
RECURSIVE DiffLoop(_, _, _, _, _)
DiffLoop(keys, before, proposed, s, ctx) ==
    IF keys = <<>>
    THEN [st |-> s, raised |-> FALSE]
    ELSE LET key_before == Head(keys)
             r == CompareAttrs(component_attr_to_trackchanges(before[key_before]),
                               before[key_before], proposed[key_before])
             s1 == IF r.enq THEN schedule_component_refresh(s, ctx, key_before)
                   ELSE s
         IN  IF r.raised
             THEN [st |-> s1, raised |-> TRUE]
             ELSE DiffLoop(Tail(keys), before, proposed, s1, ctx)

KeysDiffer(before, proposed) == DOMAIN before # DOMAIN proposed

Reconcile(before, proposed, s, ctx) ==
    IF KeysDiffer(before, proposed)
    THEN [st |-> schedule_component_refresh(s, ctx, FULL_PAGE), raised |-> FALSE]
    ELSE DiffLoop(SelectSeq(KeyOrder, LAMBDA k : k \in DOMAIN before),
                  before, proposed,
                  clear_component_refresh_queue(s, ctx, FULL_PAGE, FALSE), ctx)

(* run_user_script that goes on to the diff after the script raised *)
run_user_script_diffs(s, ctx, run) ==
    LET compoennts_before_user_run == get_components(s, ctx)
        c == compile_user_code(s, ctx, run)
        proposed_components_state == get_components(c.st, ctx)
        s4 == write_components(c.st, ctx, get_components(c.st, ctx))
        before == FilterHtml(compoennts_before_user_run)
        after == FilterHtml(proposed_components_state)
        d == Reconcile(before, after, s4, ctx)
    IN  IF c.raised
        THEN [st |-> d.st, outcome |-> "script_raised",
              before |-> compoennts_before_user_run,
              after |-> EmptyComponents, queue0 |-> s.u[ctx]]
        ELSE [st |-> d.st,
              outcome |-> IF d.raised THEN "diff_raised" ELSE "ok",
              before |-> compoennts_before_user_run,
              after |-> proposed_components_state,
              queue0 |-> get_component_refresh_queue(s4, ctx)]

(* outcome: "ok", "script_raised" (the script raised: no diff is made) or  *)
(* "diff_raised" (KeyError in the diff).  before, after: the two dicts as   *)
(* read from the store; queue0: the refresh queue the diff starts from,    *)
(* and for a script that raised the visitor's queue when the run began.    *)
run_user_script(s, ctx, run) ==
    LET compoennts_before_user_run == get_components(s, ctx)
        c == compile_user_code(s, ctx, run)
        proposed_components_state == get_components(c.st, ctx)
        s4 == write_components(c.st, ctx, get_components(c.st, ctx))
        before == FilterHtml(compoennts_before_user_run)
        after == FilterHtml(proposed_components_state)
        d == Reconcile(before, after, s4, ctx)
    IN  IF c.raised
        THEN [st |-> c.st, outcome |-> "script_raised",
              before |-> compoennts_before_user_run,
              after |-> EmptyComponents, queue0 |-> s.u[ctx]]
        ELSE [st |-> d.st,
              outcome |-> IF d.raised THEN "diff_raised" ELSE "ok",
              before |-> compoennts_before_user_run,
              after |-> proposed_components_state,
              queue0 |-> get_component_refresh_queue(s4, ctx)]

----------------------------------------------------------------------------
(* Requests.  req[v] is the request of visitor v in flight.  last is the   *)
(* record of the step taken last: who took it, the store its first         *)
(* get_app_db_path call resolved to, its locals and what it returned.      *)
(* owed is the set of visitors whose last completed request was a          *)
(* successful value change, failed the set of visitors whose last request  *)
(* ended in an exception of the user script; own0 is, for a script that    *)
(* raised, the visitor's components when the run began.  A value-change    *)
(* request for a key the visitor's components lack carries, as arrival,    *)
(* the visitor's state when the request was received, and as absent        *)
(* whether the visitor's components lack the key when the handler reads    *)
(* them.                                                                   *)

NoArrival == [known |-> TRUE]

Arrival(v, r) ==
    IF r.path = "value" /\ r.key \notin DOMAIN components[v]
    THEN [known |-> FALSE, u |-> update_required[v], c |-> components[v],
          f |-> queue_user_script_rerun]
    ELSE NoArrival

Requests ==
    {[path |-> "root", key |-> "-"], [path |-> "update", key |-> "-"]}
    \cup {[path |-> "label", key |-> k] : k \in {"a", UnknownKey}}
    \cup {[path |-> "value", key |-> k] : k \in RequestKeys}

Commit(s) ==
    /\ components' = s.c
    /\ update_required' = s.u
    /\ queue_user_script_rerun' = s.f
    /\ hs_user_app_db_path' = s.b

Init ==
    /\ components = [p \in Visitors |-> EmptyComponents]
    /\ update_required = [p \in Visitors |-> {}]
    /\ queue_user_script_rerun = TRUE
    /\ hs_user_app_db_path = NoPath
    /\ req = [v \in Visitors |-> Idle]
    /\ last = [op |-> "init"]
    /\ received = 0
    /\ owed = {}
    /\ failed = {}

(* evaluate_user_code_middleware up to `await call_next(request)`.  An     *)
(* exception of run_user_script ends the request before any handler runs.  *)
MiddlewareRun(v, r, run) ==
    LET s0 == State
        s1 == IF r.path = "root"
              THEN clear_component_refresh_queue(clear_components(s0, v), v, "-", TRUE)
              ELSE s0
        res == run_user_script(s1, v, run)
    IN  /\ Commit(res.st)
        /\ req' = [req EXCEPT ![v] =
                      IF res.outcome = "ok"
                      THEN [phase |-> "handler", path |-> r.path, key |-> r.key,
                            ran |-> TRUE, decl |-> run.decl,
                            arrival |-> Arrival(v, r)]
                      ELSE Idle]
        /\ last' = [op |-> "middleware", v |-> v, path |-> r.path, ran |-> TRUE,
                    outcome |-> res.outcome, store |-> get_app_db_path(s0, v),
                    before |-> res.before, after |-> res.after,
                    queue0 |-> res.queue0, owed |-> v \in owed,
                    own0 |-> IF res.outcome = "script_raised" THEN s1.c[v]
                             ELSE EmptyComponents,
                    failed |-> v \in failed]
        /\ failed' = IF res.outcome = "script_raised"
                     THEN failed \cup {v} ELSE failed \ {v}

MiddlewarePass(v, r) ==
    /\ req' = [req EXCEPT ![v] =
                  [phase |-> "handler", path |-> r.path, key |-> r.key,
                   ran |-> FALSE, decl |-> EmptyComponents,
                   arrival |-> Arrival(v, r)]]
    /\ last' = [op |-> "middleware", v |-> v, path |-> r.path, ran |-> FALSE,
                outcome |-> "ok", store |-> get_app_db_path(State, v),
                before |-> EmptyComponents, after |-> EmptyComponents,
                queue0 |-> {}, owed |-> v \in owed,
                own0 |-> EmptyComponents,
                failed |-> v \in failed]
    /\ failed' = failed \ {v}
    /\ UNCHANGED <<components, update_required, queue_user_script_rerun,
                   hs_user_app_db_path>>

evaluate_user_code_middleware(v, r, runs, max) ==
    /\ req[v].phase = "idle"
    /\ received < max
    /\ received = 0 => v = FirstVisitor
    /\ received' = received + 1
    /\ owed' = owed \ {v}
    /\ IF r.path = "root" \/ queue_user_script_rerun
       THEN \E run \in runs : MiddlewareRun(v, r, run)
       ELSE MiddlewarePass(v, r)

(* GET / *)
root(v) ==
    /\ req[v].phase = "handler" /\ req[v].path = "root"
    /\ LET s1 == clear_component_refresh_queue(State, v, "-", TRUE)
       IN  /\ Commit(s1)
           /\ last' = [op |-> "root", v |-> v, status |-> 200,
                       store |-> get_app_db_path(State, v),
                       decl |-> req[v].decl,
                       rendered |-> get_components(s1, v)]
    /\ req' = [req EXCEPT ![v] = Idle]
    /\ UNCHANGED <<received, owed, failed>>

(* GET /update that drains the queue whatever it holds *)
should_components_update_drain(v) ==
    /\ req[v].phase = "handler" /\ req[v].path = "update"
    /\ LET comps == get_component_refresh_queue(State, v)
           full == FULL_PAGE \in comps
       IN  /\ Commit(clear_component_refresh_queue(State, v, "-", TRUE))
           /\ last' = [op |-> "update", v |-> v, status |-> 200,
                       store |-> get_app_db_path(State, v),
                       own0 |-> update_required[v],
                       fullReload |-> full,
                       refreshKeys |-> IF full THEN {} ELSE comps]
    /\ req' = [req EXCEPT ![v] = Idle]
    /\ UNCHANGED <<received, owed, failed>>

(* GET /update *)
should_components_update(v) ==
    /\ req[v].phase = "handler" /\ req[v].path = "update"
    /\ LET comps == get_component_refresh_queue(State, v)
           full == FULL_PAGE \in comps
           s1 == IF full
                 THEN clear_component_refresh_queue(State, v, "-", TRUE)
                 ELSE State
       IN  /\ Commit(s1)
           /\ last' = [op |-> "update", v |-> v, status |-> 200,
                       store |-> get_app_db_path(State, v),
                       own0 |-> update_required[v],
                       fullReload |-> full,
                       refreshKeys |-> IF full THEN {} ELSE comps]
    /\ req' = [req EXCEPT ![v] = Idle]
    /\ UNCHANGED <<received, owed, failed>>

(* GET /{component_key}/label *)
func_for_component(v) ==
    /\ req[v].phase = "handler" /\ req[v].path = "label"
    /\ LET component_key == req[v].key
           comps == get_components(State, v)
           found == component_key \in DOMAIN comps
                    /\ "component_key" \in DOMAIN comps[component_key]
           s1 == IF found
                 THEN clear_component_refresh_queue(
                          State, v, comps[component_key].component_key, FALSE)
                 ELSE State
           ok == /\ found
                 /\ comps[component_key].component_key # ""
                 /\ "label" \in DOMAIN comps[component_key]
                 /\ comps[component_key].label # ""
                 /\ "component_type" \in DOMAIN comps[component_key]
       IN  /\ Commit(s1)
           /\ last' = [op |-> "label", v |-> v, key |-> component_key,
                       status |-> IF ok THEN 200 ELSE 500,
                       store |-> get_app_db_path(State, v),
                       body |-> IF ok THEN comps[component_key].label ELSE ""]
    /\ req' = [req EXCEPT ![v] = Idle]
    /\ UNCHANGED <<received, owed, failed>>

(* POST /value_changed/{component_key}, up to `await request.form()` *)
value_changed_read(v) ==
    /\ req[v].phase = "handler" /\ req[v].path = "value"
    /\ req' = [req EXCEPT ![v] = [phase |-> "form", path |-> "value",
                                  key |-> req[v].key,
                                  components |-> get_components(State, v),
                                  arrival |-> req[v].arrival,
                                  absent |-> req[v].key \notin DOMAIN components[v]]]
    /\ last' = [op |-> "value_read", v |-> v, key |-> req[v].key,
                store |-> get_app_db_path(State, v)]
    /\ UNCHANGED <<components, update_required, queue_user_script_rerun,
                   hs_user_app_db_path, received, owed, failed>>

(* POST /value_changed/{component_key}, from the form to the response *)
value_changed_write(v) ==
    /\ req[v].phase = "form"
    /\ LET component_key == req[v].key
           comps == req[v].components
           found == component_key \in DOMAIN comps
           rec == [a \in DOMAIN comps[component_key] \cup {"current_value"} |->
                      IF a = "current_value" THEN FormValue
                      ELSE comps[component_key][a]]
           s1 == IF found
                 THEN [write_components(State, v,
                           [comps EXCEPT ![component_key] = rec])
                       EXCEPT !.f = TRUE]
                 ELSE State
       IN  /\ Commit(s1)
           /\ last' = [op |-> "value_write", v |-> v, key |-> component_key,
                       status |-> IF found THEN 200 ELSE 500,
                       store |-> get_app_db_path(State, v),
                       arrival |-> req[v].arrival, absent |-> req[v].absent]
           /\ owed' = IF found THEN owed \cup {v} ELSE owed
    /\ req' = [req EXCEPT ![v] = Idle]
    /\ UNCHANGED <<received, failed>>

Handlers(v) ==
    \/ root(v)
    \/ should_components_update(v)
    \/ func_for_component(v)
    \/ value_changed_read(v)
    \/ value_changed_write(v)

Next ==
    \E v \in Visitors :
        \/ \E r \in Requests :
              evaluate_user_code_middleware(v, r, ScriptRuns, MaxRequests)
        \/ Handlers(v)

Spec == Init /\ [][Next]_vars

(* Longer runs over fewer inputs: three script runs, no label requests and *)
(* no request for an unknown key.                                          *)
DeepScriptRuns ==
    { [decl |-> One("a", Rec("a", "x")), raises |-> FALSE],
      [decl |-> One("a", Rec("a", "y")), raises |-> FALSE],
      [decl |-> One("b", Rec("b", "x")), raises |-> FALSE] }

DeepRequests ==
    {[path |-> "root", key |-> "-"], [path |-> "update", key |-> "-"],
     [path |-> "value", key |-> "a"], [path |-> "value", key |-> "b"]}

NextDeep ==
    \E v \in Visitors :
        \/ \E r \in DeepRequests :
              evaluate_user_code_middleware(v, r, DeepScriptRuns, MaxDeepRequests)
        \/ root(v)
        \/ should_components_update(v)
        \/ value_changed_read(v)
        \/ value_changed_write(v)

SpecDeep == Init /\ [][NextDeep]_vars

(* Scripts of two components, and a component with an empty label: one     *)
(* run declares a with an attribute the next run drops while the label of  *)
(* b changes too.                                                          *)
EdgeScriptRuns ==
    { [decl |-> Both(RecExtra("a", "x"), Rec("b", "x")), raises |-> FALSE],
      [decl |-> Both(Rec("a", "y"), Rec("b", "y")), raises |-> FALSE],
      [decl |-> One("a", Rec("a", "")), raises |-> FALSE] }

EdgeRequests ==
    {[path |-> "root", key |-> "-"], [path |-> "update", key |-> "-"],
     [path |-> "label", key |-> "a"], [path |-> "value", key |-> "a"]}

NextEdge ==
    \E v \in Visitors :
        \/ \E r \in EdgeRequests :
              evaluate_user_code_middleware(v, r, EdgeScriptRuns, MaxEdgeRequests)
        \/ Handlers(v)

SpecEdge == Init /\ [][NextEdge]_vars

----------------------------------------------------------------------------
(* Vocabulary of the properties *)

(* The keys of a components dict that are not synthetic HTML keys. *)
VisibleKeys(comps) == {k \in DOMAIN comps : k # HS_HTML_KEY}

(* A reconciliation was made by the step taken last: the script ran and    *)
(* returned, and the diff was entered.                                     *)
Reconciled ==
    /\ last.op = "middleware"
    /\ last.ran
    /\ last.outcome \in {"ok", "diff_raised"}

KeySetChanged == VisibleKeys(last.before) # VisibleKeys(last.after)

(* Some attribute other than current_value differs between the two         *)
(* records, in value or in presence.                                       *)
TrackedDiffers(rb, ra) ==
    \E attr \in (DOMAIN rb \cup DOMAIN ra) \ {"current_value"} :
        \/ attr \notin DOMAIN rb
        \/ attr \notin DOMAIN ra
        \/ rb[attr] # ra[attr]

ValueDiffers(rb, ra) ==
    \/ ("current_value" \in DOMAIN rb) # ("current_value" \in DOMAIN ra)
    \/ /\ "current_value" \in DOMAIN rb
       /\ "current_value" \in DOMAIN ra
       /\ rb.current_value # ra.current_value

(* C5: every entry of a refresh queue other than the sentinel is a key of  *)
(* the components stored beside it.                                        *)
QueueKeysAreComponents ==
    \A p \in Visitors : update_required[p] \ {FULL_PAGE} \subseteq DOMAIN components[p]

----------------------------------------------------------------------------
(* run_user_script: the decision of the diff *)

(* C1: a reconciliation whose two key sets differ, synthetic HTML keys     *)
(* left out, adds the sentinel _full_page to the visitor's refresh queue   *)
(* and nothing else.                                                       *)
FullPageOnKeySetChange ==
    (Reconciled /\ KeySetChanged)
        => update_required[last.v] = last.queue0 \cup {FULL_PAGE}

(* one key added and another removed by the same run *)
KeyAddedAndRemoved ==
    /\ Reconciled
    /\ VisibleKeys(last.before) \ VisibleKeys(last.after) # {}
    /\ VisibleKeys(last.after) \ VisibleKeys(last.before) # {}
    /\ FULL_PAGE \in update_required[last.v]
    /\ FULL_PAGE \notin last.queue0

(* C2: after a reconciliation whose two key sets are equal the visitor's   *)
(* refresh queue does not hold _full_page, a stale one included.           *)
NoFullPageOnEqualKeySets ==
    (Reconciled /\ ~KeySetChanged) => FULL_PAGE \notin update_required[last.v]

(* a stale sentinel was in the queue when the diff began *)
StaleFullPageCleared ==
    /\ Reconciled
    /\ ~KeySetChanged
    /\ VisibleKeys(last.before) # {}
    /\ FULL_PAGE \in last.queue0
    /\ FULL_PAGE \notin update_required[last.v]

(* C3: with equal key sets, a key is in the refresh queue after the        *)
(* reconciliation if an attribute other than current_value differs in      *)
(* value or in presence between its two records, and a key whose other     *)
(* attributes are all equal is not added to the queue.                     *)
AttributeChangeEnqueuesKey ==
    (Reconciled /\ ~KeySetChanged)
        => \A k \in VisibleKeys(last.before) :
              IF TrackedDiffers(last.before[k], last.after[k])
              THEN k \in update_required[last.v]
              ELSE k \in update_required[last.v] => k \in last.queue0

(* C4: a reconciliation in which the key sets are equal and every          *)
(* attribute other than current_value of every record is equal completes   *)
(* and adds nothing to the refresh queue.                                  *)
ValueOnlyChangeEnqueuesNothing ==
    (/\ Reconciled
     /\ ~KeySetChanged
     /\ \A k \in VisibleKeys(last.before) :
            ~TrackedDiffers(last.before[k], last.after[k]))
        => /\ last.outcome = "ok"
           /\ update_required[last.v] \subseteq last.queue0

(* only the current_value of a record changed in the run *)
ValueOnlyChanged ==
    /\ Reconciled
    /\ ~KeySetChanged
    /\ \A k \in VisibleKeys(last.before) :
           ~TrackedDiffers(last.before[k], last.after[k])
    /\ \E k \in VisibleKeys(last.before) :
           ValueDiffers(last.before[k], last.after[k])
    /\ update_required[last.v] \subseteq last.queue0

----------------------------------------------------------------------------
(* Sessions *)

(* C6: every step taken for a request of visitor v resolves its storage    *)
(* path to the store of v.                                                 *)
SessionIsolation == last.op # "init" => last.store = last.v

(* C7: the first request of a visitor after its successful value change    *)
(* runs the script.                                                        *)
RerunOwedIsRun == (last.op = "middleware" /\ last.owed) => last.ran

(* C8: when the root handler returns, the visitor's refresh queue is empty *)
(* and its components are the records the script run of the request        *)
(* declared.                                                               *)
RootVisitResets ==
    last.op = "root"
        => /\ update_required[last.v] = {}
           /\ components[last.v] = last.decl

----------------------------------------------------------------------------
(* The poll of the refresh queue *)

(* C9: the poll reports a full reload exactly when _full_page is in the    *)
(* visitor's refresh queue when the handler reads it, and then leaves that *)
(* queue empty; otherwise it reports the keys of that queue.               *)
PollReportsOwnQueue ==
    last.op = "update"
        => /\ last.fullReload <=> FULL_PAGE \in last.own0
           /\ last.fullReload => update_required[last.v] = {}
           /\ ~last.fullReload => last.refreshKeys = last.own0

(* the poll handler of v returns having read a queue without _full_page *)
PollWithoutFullPage(v) ==
    /\ req[v].phase = "handler"
    /\ req[v].path = "update"
    /\ req'[v].phase = "idle"
    /\ FULL_PAGE \notin get_component_refresh_queue(State, v)

(* C10: a poll that finds no _full_page leaves every refresh queue and all *)
(* components unchanged, so that reading the queue again returns the set   *)
(* the poll reported.                                                      *)
ReadLeavesQueue ==
    [][\A v \in Visitors :
          PollWithoutFullPage(v)
              => /\ UNCHANGED <<components, update_required>>
                 /\ last'.refreshKeys = update_required'[last'.store]]_vars

(* a poll reported keys and they are still queued *)
PolledKeysStillQueued ==
    /\ last.op = "update"
    /\ ~last.fullReload
    /\ last.refreshKeys # {}
    /\ update_required[last.store] = last.refreshKeys

----------------------------------------------------------------------------
(* Errors *)

(* C11: a value-change request for a key that the visitor's components     *)
(* lack, when the request is received and when its handler reads them,     *)
(* ends in an error, and when it has ended the visitor's refresh queue,    *)
(* the visitor's components and the rerun flag are as they were when the   *)
(* request was received.                                                   *)
UnknownKeyChangesNothing ==
    (last.op = "value_write" /\ ~last.arrival.known /\ last.absent)
        => /\ last.status = 500
           /\ update_required[last.v] = last.arrival.u
           /\ components[last.v] = last.arrival.c
           /\ queue_user_script_rerun = last.arrival.f

(* C12: when the user script raises, the request ends there, without a     *)
(* handler, and the visitor's refresh queue is the one it was when the run *)
(* began.                                                                  *)
ScriptFailureKeepsQueue ==
    (last.op = "middleware" /\ last.outcome = "script_raised")
        => /\ update_required[last.v] = last.queue0
           /\ req[last.v].phase = "idle"

(* the script raised over a queue that held an entry *)
ScriptFailedOverQueuedEntry ==
    /\ last.op = "middleware"
    /\ last.outcome = "script_raised"
    /\ last.queue0 # {}
    /\ update_required[last.v] = last.queue0

----------------------------------------------------------------------------
(* Reconciliation as a whole *)

(* The keys of a reconciliation: those whose records differ in an          *)
(* attribute other than current_value.                                     *)
ChangedKeys(before, after) ==
    {k \in VisibleKeys(before) : TrackedDiffers(before[k], after[k])}

(* C13: what a poll can read of a reconciliation over equal key sets is    *)
(* the visitor's refresh queue either as it was when the reconciliation    *)
(* began or with all of the keys of that reconciliation added, never with  *)
(* some of them only.                                                      *)
NoHalfAppliedDiff ==
    (Reconciled /\ ~KeySetChanged)
        => update_required[last.v] \in
              { last.queue0,
                (last.queue0 \ {FULL_PAGE})
                    \cup ChangedKeys(last.before, last.after) }

----------------------------------------------------------------------------
(* When the script runs *)

(* the middleware receives a request *)
RequestReceived == received' = received + 1

(* C14: the middleware runs the script for a request exactly when the      *)
(* request is for the root route or the rerun flag is set, the flag is     *)
(* clear after every run, no step other than the middleware's runs the     *)
(* script, and the flag is set again by a successful value change only:    *)
(* a request for another route with no value change since the last run     *)
(* does not run the script.                                                *)
ScriptRunsWhenDue ==
    [][/\ RequestReceived
            => /\ last'.ran <=> (last'.path = "root" \/ queue_user_script_rerun)
               /\ last'.ran => ~queue_user_script_rerun'
       /\ ~RequestReceived => hs_user_app_db_path' = hs_user_app_db_path
       /\ (queue_user_script_rerun' /\ ~queue_user_script_rerun)
            => (last'.op = "value_write" /\ last'.status = 200)]_vars

(* a request for another route than the root finds the flag clear after a  *)
(* run and does not run the script                                         *)
RequestWithoutRun ==
    /\ last.op = "middleware"
    /\ last.path # "root"
    /\ ~last.ran
    /\ hs_user_app_db_path # NoPath
    /\ ~queue_user_script_rerun

----------------------------------------------------------------------------
(* The life of a queue entry *)

(* This step takes entry e out of the queue of store p as a delivery: the  *)
(* label handler for the key e, a root visit, or a poll that reports the   *)
(* full reload.                                                            *)
Delivered(p, e) ==
    \/ last'.op = "label" /\ last'.key = e /\ last'.store = p
    \/ last'.op = "root" /\ last'.store = p
    \/ last'.op = "middleware" /\ last'.path = "root" /\ last'.store = p
    \/ last'.op = "update" /\ last'.fullReload /\ last'.store = p

(* This step is a reconciliation over equal key sets, e the sentinel. *)
SupersededFullPage(p, e) ==
    /\ e = FULL_PAGE
    /\ last'.op = "middleware"
    /\ last'.ran
    /\ last'.outcome \in {"ok", "diff_raised"}
    /\ VisibleKeys(last'.before) = VisibleKeys(last'.after)
    /\ last'.v = p

----------------------------------------------------------------------------
(* After a failure *)

(* C16: when the user script raises, the visitor's stored components are   *)
(* the ones stored when the run began.                                     *)
ScriptFailureKeepsComponents ==
    (last.op = "middleware" /\ last.outcome = "script_raised")
        => components[last.v] = last.own0

(* C17: a request of a visitor whose previous request ended in an          *)
(* exception of the user script runs the script.                           *)
FailedRunIsRunAgain ==
    (last.op = "middleware" /\ last.failed) => last.ran

(* C18: a reconciliation entered after the script returned completes       *)
(* without raising.                                                        *)
DiffNeverRaises == Reconciled => last.outcome = "ok"

----------------------------------------------------------------------------
(* Synthetic HTML records *)

VisiblePart(comps) == [k \in VisibleKeys(comps) |-> comps[k]]

(* The reconciliation of the last step saw a change in synthetic HTML      *)
(* records and in nothing else.                                            *)
OnlySyntheticChanged ==
    /\ Reconciled
    /\ last.before # last.after
    /\ VisiblePart(last.before) = VisiblePart(last.after)

----------------------------------------------------------------------------
(* The label request *)

(* the label handler of v returns *)
LabelReturns(v) ==
    /\ req[v].phase = "handler"
    /\ req[v].path = "label"
    /\ req'[v].phase = "idle"

(* C20: a label request leaves all components unchanged; one that returns  *)
(* the label removes its key, and nothing else, from the refresh queue it  *)
(* reads, and one that ends in an error leaves every refresh queue         *)
(* unchanged.                                                              *)
LabelDequeuesOnSuccessOnly ==
    [][\A v \in Visitors :
          LabelReturns(v)
              => /\ components' = components
                 /\ update_required' =
                        IF last'.status = 200
                        THEN [update_required EXCEPT
                                 ![last'.store] = @ \ {last'.key}]
                        ELSE update_required]_vars

====
